---- MODULE Spec2Model ----
(***************************************************************************)
(* Access control of the "higher" relay: HD key derivation                 *)
(* (keyderivation/hdkey.go), the membership search                         *)
(* CheckKeyBelongsToMaster, the roster fetched from TEAM_DOMAIN, and the   *)
(* three policy handlers registered in main.go (relay.RejectEvent,         *)
(* relay.RejectFilter, bl.RejectUpload).                                   *)
(*                                                                         *)
(* Keys.  HMAC-SHA512 / secp256k1 are modelled as collision free: a key    *)
(* is named by the seed it descends from and the sequence of child numbers *)
(* that leads to it, and two keys are equal exactly when both agree.       *)
(* Text.  A string that carries a key is a record [form, part, key]: the   *)
(* form is how it is written ("hex", "npub", "nsec", "note", or "bad" for  *)
(* text that is none of them), the part says whether it carries the        *)
(* public or the private half.                                             *)
(* Specifications.  Spec is main() with its handlers, a fetch of the       *)
(* roster being one step.  SpecRace splits the assignment of the roster,   *)
(* SpecRefresh adds the fairness of the refresh loop, SpecLoop runs the    *)
(* search loop one iteration at a time over a scaled uint32, and           *)
(* SpecHandlers, SpecCheck, SpecCheckErr and SpecKinds apply the handlers, *)
(* the library and parseAllowedKinds to inputs main() does not give them.  *)
(***************************************************************************)
EXTENDS Integers, Sequences, FiniteSets, TLC

\* ------------------------------------------------------------------ bounds
\* largest MAX_DERIVATION_INDEX the environment sets explicitly
MaxIndexBound == 2
\* longest author list of a filter
MaxAuthors == 2
\* the width of a uint32 in bits, scaled down: the integers of the checker
\* end at 2^31 - 1, and a loop over every uint32 is beyond it.  The words
\* are 0..2^WordBits - 1 and arithmetic on them is modulo 2^WordBits
WordBits == 3
\* most entries of an ALLOWED_KINDS text
MaxEntries == 3

\* ------------------------------------------------------- program constants
\* hdkeychain.HardenedKeyStart = 0x80000000: the top bit of a word
HardenedKeyStart == 2 ^ (WordBits - 1)
\* math.MaxUint32
MaxUint32 == 2 ^ WordBits - 1
\* the values of a uint32
Words == 0..MaxUint32
DefaultMaxDerivationIndex == 100
DefaultMaxUploadSizeMB == 200
MiB == 1048576
StatusTooLarge == 413
StatusForbidden == 403

\* --------------------------------------------------------------- seeds
\* a seed nobody configured (keys of strangers)
StrangerSeed == "stranger"

\* pc            where main() stands: "boot", "configured" (LoadConfig
\*               returned), "derived" (initDeriver returned), "serving", or
\*               "fatal" (log.Fatalf)
\* config        the package variable config
\* deriver       the package variable deriver (Nil or Some(deriver))
\* invalidChild  the indexes at which the last step of the derivation path
\*               fails for the configured seed (hdkeychain.ErrInvalidChild)
\* data          data.Names, the roster (name -> public key text)
\* storing       Some(newData.Names) while the refresh goroutine is inside the
\*               assignment `data = newData`, Nil otherwise
\* everFetched   whether a fetch of the roster ever succeeded
\* last          the call that ran last and has not returned: a policy call
\*               with its decision, a fetch of the roster with what it met,
\*               or a call of the library with its result
VARIABLES pc, config, deriver, invalidChild, data, storing, everFetched, last

vars == <<pc, config, deriver, invalidChild, data, storing, everFetched, last>>

\* ------------------------------------------------------------ nullable
Nil == <<>>
Some(v) == <<v>>
IsNil(p) == p = <<>>
Deref(p) == p[1]

\* ------------------------------------------------------------ hdkeychain
NewMaster(seed) == [seed |-> seed, path |-> <<>>]

\* a child number: HardenedKeyStart + n is written Hardened(n) (the fixed
\* steps 44, 1237 and 0 keep their numbers), and a uint32 c handed to Derive
\* is hardened exactly when it is >= HardenedKeyStart
Hardened(n) == [hardened |-> TRUE, n |-> n]
ChildNumber(c) ==
    IF c >= HardenedKeyStart THEN [hardened |-> TRUE, n |-> c - HardenedKeyStart]
    ELSE [hardened |-> FALSE, n |-> c]

\* ExtendedKey.Derive: the child is named by the parent's name followed by
\* the child number
Derive(k, c) == [seed |-> k.seed, path |-> Append(k.path, c)]

\* ------------------------------------------------------------ encodings
\* hex.EncodeToString of the public / private half of a key
HexPub(k) == [form |-> "hex", part |-> "pub", key |-> k]
HexPriv(k) == [form |-> "hex", part |-> "priv", key |-> k]

\* nip19.EncodePublicKey / nip19.EncodePrivateKey of a hex string
EncodePublicKey(h) == [form |-> "npub", part |-> h.part, key |-> h.key]
EncodePrivateKey(h) == [form |-> "nsec", part |-> h.part, key |-> h.key]

\* nip19.Decode: succeeds on bech32 text only, yielding the prefix and the
\* hex string of the payload (a note carries the id of an event)
Nip19Decode(s) ==
    IF s.form \in {"npub", "nsec", "note"}
    THEN [err |-> FALSE, prefix |-> s.form,
          decoded |-> [form |-> "hex", part |-> s.part, key |-> s.key]]
    ELSE [err |-> TRUE, prefix |-> "", decoded |-> s]

\* ------------------------------------------------- keyderivation/hdkey.go
\* hdkeychain.NewMaster accepts seeds of 16..64 bytes
NewMasterFails(seed) == seed.len < 16 \/ seed.len > 64

\* bip39.IsMnemonicValid
IsMnemonicValid(m) == m \in {"valid words", "generated words"}

\* bip39.NewSeed(mnemonic, ""): 64 bytes, a function of the words
NewSeed(m) == [id |-> m, len |-> 64]

NewNostrKeyDeriver(mnemonic) ==
    LET m == IF mnemonic = "" THEN "generated words" ELSE mnemonic
    IN  IF ~IsMnemonicValid(m) THEN [err |-> TRUE, d |-> Nil]
        ELSE IF NewMasterFails(NewSeed(m)) THEN [err |-> TRUE, d |-> Nil]
        ELSE [err |-> FALSE,
              d |-> Some([masterKey |-> NewMaster(NewSeed(m).id), mnemonic |-> m,
                          masterSeed |-> NewSeed(m)])]

NewNostrKeyDeriverFromSeed(seed) ==
    IF NewMasterFails(seed) THEN [err |-> TRUE, d |-> Nil]
    ELSE [err |-> FALSE,
          d |-> Some([masterKey |-> NewMaster(seed.id), mnemonic |-> "",
                      masterSeed |-> seed])]

\* the NostrKeyPair built from an extended key
KeyPairOf(k, index) ==
    [PrivateKey |-> HexPriv(k), PublicKey |-> HexPub(k),
     PrivateKeyNIP |-> EncodePrivateKey(HexPriv(k)),
     PublicKeyNIP |-> EncodePublicKey(HexPub(k)), Index |-> index]

GetMasterKeyPair(nkd) == KeyPairOf(nkd.masterKey, 0)

\* the last Derive of the path fails (hdkeychain.ErrInvalidChild) at the
\* indexes in bad; the four fixed steps are taken to succeed
DeriveKeyBIP32(nkd, index, bad) ==
    LET purposeKey == Derive(nkd.masterKey, Hardened(44))
        coinTypeKey == Derive(purposeKey, Hardened(1237))
        accountKey == Derive(coinTypeKey, Hardened(0))
        chainKey == Derive(accountKey, ChildNumber(0))
        childKey == Derive(chainKey, ChildNumber(index))
    IN  IF index \in bad
        THEN [err |-> TRUE, kp |-> KeyPairOf(chainKey, index)]
        ELSE [err |-> FALSE, kp |-> KeyPairOf(childKey, index)]

\* uint32(n) of a Go int n: n modulo 2^32, so -1 becomes MaxUint32
ToUint32(n) == n % (MaxUint32 + 1)

\* mutant: the loop test written i < maxIndex
SearchLoop_Exclusive(nkd, targetPubKey, maxIndex, bad) ==
    LET stops == {i \in 0..(maxIndex - 1) :
                    \/ DeriveKeyBIP32(nkd, i, bad).err
                    \/ DeriveKeyBIP32(nkd, i, bad).kp.PublicKey = targetPubKey}
        first == CHOOSE i \in stops : \A j \in stops : i <= j
    IN  IF stops = {}
        THEN [belongs |-> FALSE, index |-> 0, err |-> "", errIndex |-> 0]
        ELSE IF DeriveKeyBIP32(nkd, first, bad).err
        THEN [belongs |-> FALSE, index |-> 0,
              err |-> "failed to derive key at index %d", errIndex |-> first]
        ELSE [belongs |-> TRUE, index |-> first, err |-> "", errIndex |-> 0]

\* mutant: a failed derivation is skipped and the loop goes on
SearchLoop_SkipsFailed(nkd, targetPubKey, maxIndex, bad) ==
    LET stops == {i \in 0..maxIndex :
                    /\ ~DeriveKeyBIP32(nkd, i, bad).err
                    /\ DeriveKeyBIP32(nkd, i, bad).kp.PublicKey = targetPubKey}
        first == CHOOSE i \in stops : \A j \in stops : i <= j
    IN  IF stops = {}
        THEN [belongs |-> FALSE, index |-> 0, err |-> "", errIndex |-> 0]
        ELSE [belongs |-> TRUE, index |-> first, err |-> "", errIndex |-> 0]

\* mutant: a match reports the bound of the search instead of the counter
SearchLoop_ReportsBound(nkd, targetPubKey, maxIndex, bad) ==
    LET stops == {i \in 0..maxIndex :
                    \/ DeriveKeyBIP32(nkd, i, bad).err
                    \/ DeriveKeyBIP32(nkd, i, bad).kp.PublicKey = targetPubKey}
        first == CHOOSE i \in stops : \A j \in stops : i <= j
    IN  IF stops = {}
        THEN [belongs |-> FALSE, index |-> 0, err |-> "", errIndex |-> 0]
        ELSE IF DeriveKeyBIP32(nkd, first, bad).err
        THEN [belongs |-> FALSE, index |-> 0,
              err |-> "failed to derive key at index %d", errIndex |-> first]
        ELSE [belongs |-> TRUE, index |-> maxIndex, err |-> "", errIndex |-> 0]

\* mutant: the loop starts at counter 1
SearchLoop_FromOne(nkd, targetPubKey, maxIndex, bad) ==
    LET stops == {i \in 1..maxIndex :
                    \/ DeriveKeyBIP32(nkd, i, bad).err
                    \/ DeriveKeyBIP32(nkd, i, bad).kp.PublicKey = targetPubKey}
        first == CHOOSE i \in stops : \A j \in stops : i <= j
    IN  IF stops = {}
        THEN [belongs |-> FALSE, index |-> 0, err |-> "", errIndex |-> 0]
        ELSE IF DeriveKeyBIP32(nkd, first, bad).err
        THEN [belongs |-> FALSE, index |-> 0,
              err |-> "failed to derive key at index %d", errIndex |-> first]
        ELSE [belongs |-> TRUE, index |-> first, err |-> "", errIndex |-> 0]

\* the loop `for i := uint32(0); i <= maxIndex; i++` of
\* CheckKeyBelongsToMaster: it returns at the first counter value at which
\* the derivation fails or the derived public key is the target, and falls
\* through when there is none in 0..maxIndex
SearchLoop(nkd, targetPubKey, maxIndex, bad) ==
    LET stops == {i \in 0..maxIndex :
                    \/ DeriveKeyBIP32(nkd, i, bad).err
                    \/ DeriveKeyBIP32(nkd, i, bad).kp.PublicKey = targetPubKey}
        first == CHOOSE i \in stops : \A j \in stops : i <= j
    IN  IF stops = {}
        THEN [belongs |-> FALSE, index |-> 0, err |-> "", errIndex |-> 0]
        ELSE IF DeriveKeyBIP32(nkd, first, bad).err
        THEN [belongs |-> FALSE, index |-> 0,
              err |-> "failed to derive key at index %d", errIndex |-> first]
        ELSE [belongs |-> TRUE, index |-> first, err |-> "", errIndex |-> 0]

\* mutant: the text of an npub is compared as it came, without its payload
CheckKeyBelongsToMaster_Undecoded(nkd, targetKey, maxIndex, bad) ==
    LET dec == Nip19Decode(targetKey)
    IN  IF ~dec.err /\ dec.prefix # "npub"
        THEN [belongs |-> FALSE, index |-> 0,
              err |-> "unsupported NIP-19 format", errIndex |-> 0]
        ELSE SearchLoop(nkd, targetKey, maxIndex, bad)

\* mutant: the payload of any bech32 text is searched for, whatever its prefix
CheckKeyBelongsToMaster_AnyPrefix(nkd, targetKey, maxIndex, bad) ==
    LET dec == Nip19Decode(targetKey)
    IN  SearchLoop(nkd, IF ~dec.err THEN dec.decoded ELSE targetKey, maxIndex, bad)

\* CheckKeyBelongsToMaster(targetKey, maxIndex, true)
CheckKeyBelongsToMaster(nkd, targetKey, maxIndex, bad) ==
    LET dec == Nip19Decode(targetKey)
    IN  IF ~dec.err /\ dec.prefix # "npub"
        THEN [belongs |-> FALSE, index |-> 0,
              err |-> "unsupported NIP-19 format", errIndex |-> 0]
        ELSE SearchLoop(nkd, IF ~dec.err THEN dec.decoded ELSE targetKey,
                        maxIndex, bad)

\* ------------------------------------------------------------ environment
\* strings.TrimSpace over the texts of the model (" " is a blank text)
TrimSpace(s) == IF s = " " THEN "" ELSE s

\* the text of an integer variable: a decimal number or something else
IntText(n) == [numeric |-> TRUE, n |-> n]
BadText == [numeric |-> FALSE, n |-> 0]

getEnvIntWithDefault(value, defaultValue) ==
    IF IsNil(value) THEN defaultValue
    ELSE IF ~Deref(value).numeric THEN defaultValue
    ELSE Deref(value).n

\* hex.DecodeString over the seed texts of the model
HexDecodeString(s) ==
    CASE s = "hex of 32 bytes" -> [err |-> FALSE, bytes |-> [id |-> s, len |-> 32]]
      [] s = "hex of 16 bytes" -> [err |-> FALSE, bytes |-> [id |-> s, len |-> 16]]
      [] s = "hex of 8 bytes" -> [err |-> FALSE, bytes |-> [id |-> s, len |-> 8]]
      [] OTHER -> [err |-> TRUE, bytes |-> [id |-> s, len |-> 0]]

\* ALLOWED_KINDS is held as the list of its comma separated entries, each a
\* number text, another text, or blank
RECURSIVE ParseEntries(_)
ParseEntries(entries) ==
    IF entries = <<>> THEN <<>>
    ELSE LET e == Head(entries)
         IN  IF e.blank \/ ~e.numeric THEN ParseEntries(Tail(entries))
             ELSE <<e.n>> \o ParseEntries(Tail(entries))

\* mutant: only the text before the first comma is parsed
parseAllowedKinds_FirstOnly(allowedKindsStr) ==
    IF IsNil(allowedKindsStr) THEN <<>>
    ELSE IF Len(Deref(allowedKindsStr)) = 1 /\ Deref(allowedKindsStr)[1].blank
    THEN <<>>
    ELSE ParseEntries(<<Head(Deref(allowedKindsStr))>>)

parseAllowedKinds(allowedKindsStr) ==
    IF IsNil(allowedKindsStr) THEN <<>>
    ELSE IF Len(Deref(allowedKindsStr)) = 1 /\ Deref(allowedKindsStr)[1].blank
    THEN <<>>
    ELSE ParseEntries(Deref(allowedKindsStr))

KindEntry(n) == [blank |-> FALSE, numeric |-> TRUE, n |-> n]
BadEntry == [blank |-> FALSE, numeric |-> FALSE, n |-> 0]
BlankEntry == [blank |-> TRUE, numeric |-> FALSE, n |-> 0]

\* ------------------------------------------------------------------ inputs
Kinds == {1, 7}

MnemonicEnv == {Nil, Some(" "), Some("valid words"), Some("wrong checksum")}
SeedHexEnv == {Nil, Some(" "), Some("hex of 32 bytes"), Some("hex of 16 bytes"),
               Some("hex of 8 bytes"), Some("not hex")}
TeamDomainEnv == {"", "team.example"}
AllowedKindsEnv == {Nil, Some(<<BlankEntry>>), Some(<<KindEntry(1)>>),
                    Some(<<BadEntry, KindEntry(1)>>),
                    Some(<<KindEntry(7), BlankEntry, KindEntry(1)>>)}
MaxUploadEnv == {Nil, Some(BadText), Some(IntText(1))}
\* MAX_DERIVATION_INDEX is set, as in the integration tests
MaxIndexEnv == {Some(IntText(n)) : n \in 0..MaxIndexBound}

Env == [mnemonic : MnemonicEnv, seedHex : SeedHexEnv, teamDomain : TeamDomainEnv,
        blossomEnabled : BOOLEAN, allowedKinds : AllowedKindsEnv,
        maxUpload : MaxUploadEnv, maxIndex : MaxIndexEnv, readsRestricted : BOOLEAN]

\* the key a client holding the seed derives at m/44'/1237'/0'/0/index
Child(seedId, index) ==
    [seed |-> seedId,
     path |-> <<Hardened(44), Hardened(1237), Hardened(0),
                [hardened |-> FALSE, n |-> 0], [hardened |-> FALSE, n |-> index]>>]

Garbage == [form |-> "bad", part |-> "pub", key |-> NewMaster("")]

\* the strings a client may send as a public key to a relay whose master
\* descends from seedId
KeyStrings(seedId) ==
    {HexPub(NewMaster(seedId))}
    \cup {HexPub(Child(seedId, i)) : i \in 0..(MaxIndexBound + 1)}
    \cup {EncodePublicKey(HexPub(Child(seedId, 0))),
          EncodePrivateKey(HexPriv(Child(seedId, 0))),
          HexPub(NewMaster(StrangerSeed)), Garbage}

\* the strings of author lists
AuthorStrings(seedId) ==
    {HexPub(NewMaster(seedId)), HexPub(Child(seedId, 0)),
     HexPub(Child(seedId, MaxIndexBound + 1)),
     EncodePublicKey(HexPub(Child(seedId, 0))),
     EncodePrivateKey(HexPriv(Child(seedId, 0))),
     HexPub(NewMaster(StrangerSeed))}

AuthorLists(seedId) ==
    UNION {[1..n -> AuthorStrings(seedId)] : n \in 0..MaxAuthors}

\* the id of an event written as a note (bech32, prefix note)
NoteId == [form |-> "note", part |-> "id", key |-> NewMaster("")]

\* the texts handed to CheckKeyBelongsToMaster by a program that holds the
\* deriver of seedId
CheckTargets(seedId) ==
    KeyStrings(seedId)
    \cup {EncodePublicKey(HexPub(Child(seedId, i))) : i \in 0..(MaxIndexBound + 1)}
    \cup {EncodePublicKey(HexPub(NewMaster(seedId))),
          EncodePrivateKey(HexPriv(NewMaster(seedId))),
          HexPub(Child(StrangerSeed, 0)),
          EncodePublicKey(HexPub(Child(StrangerSeed, 0))), NoteId}

\* the documents the roster source may publish (name -> public key)
NoNames == [n \in {} |-> Garbage]
RosterDocs ==
    {NoNames,
     [n \in {"alice", "bob"} |->
        IF n = "alice" THEN HexPub(NewMaster(StrangerSeed))
        ELSE HexPub(Child("hex of 32 bytes", MaxIndexBound + 1))]}

\* ---------------------------------------------------------------- main.go
ZeroConfig ==
    [TeamDomain |-> "", BlossomEnabled |-> FALSE, AllowedKinds |-> <<>>,
     MaxUploadSizeMB |-> 0, RelayMnemonic |-> Nil, RelaySeedHex |-> Nil,
     MaxDerivationIndex |-> 0, ReadsRestricted |-> FALSE]

\* the Config literal of LoadConfig
ConfigOf(env) ==
    [TeamDomain |-> env.teamDomain, BlossomEnabled |-> env.blossomEnabled,
     AllowedKinds |-> parseAllowedKinds(env.allowedKinds),
     MaxUploadSizeMB |-> getEnvIntWithDefault(env.maxUpload, DefaultMaxUploadSizeMB),
     RelayMnemonic |-> env.mnemonic, RelaySeedHex |-> env.seedHex,
     MaxDerivationIndex |-> getEnvIntWithDefault(env.maxIndex, DefaultMaxDerivationIndex),
     ReadsRestricted |-> env.readsRestricted]

\* mutant: a blank RELAY_SEED_HEX counts as set
hasSeed_Untrimmed(cfg) == ~IsNil(cfg.RelaySeedHex) /\ Deref(cfg.RelaySeedHex) # ""

hasMnemonic(cfg) == ~IsNil(cfg.RelayMnemonic) /\ TrimSpace(Deref(cfg.RelayMnemonic)) # ""
hasSeed(cfg) == ~IsNil(cfg.RelaySeedHex) /\ TrimSpace(Deref(cfg.RelaySeedHex)) # ""

\* the result of initDeriver: the error and the deriver it leaves
initDeriver(cfg) ==
    IF hasMnemonic(cfg)
    THEN NewNostrKeyDeriver(TrimSpace(Deref(cfg.RelayMnemonic)))
    ELSE IF hasSeed(cfg)
    THEN LET dec == HexDecodeString(TrimSpace(Deref(cfg.RelaySeedHex)))
         IN  IF dec.err THEN [err |-> TRUE, d |-> Nil]
             ELSE NewNostrKeyDeriverFromSeed(dec.bytes)
    ELSE [err |-> FALSE, d |-> Nil]

\* the values of data.Names
RosterValues(names) == {names[n] : n \in DOMAIN names}

\* mutant: the kind is checked before the team
RejectEvent_KindFirst(cfg, drv, names, bad, event) ==
    LET chk == CheckKeyBelongsToMaster(Deref(drv), event.PubKey,
                                       ToUint32(cfg.MaxDerivationIndex), bad)
        belongsToMaster == IF ~IsNil(drv) THEN chk.belongs ELSE FALSE
        isTeamMember == \E pubkey \in RosterValues(names) : event.PubKey = pubkey
        isKindAllowed ==
            \E i \in 1..Len(cfg.AllowedKinds) : event.Kind = cfg.AllowedKinds[i]
    IN  IF Len(cfg.AllowedKinds) > 0 /\ ~isKindAllowed
        THEN [reject |-> TRUE, msg |-> "event kind %d is not allowed", status |-> 0]
        ELSE IF cfg.TeamDomain # "" /\ ~belongsToMaster /\ ~isTeamMember
        THEN [reject |-> TRUE, msg |-> "you are not part of the team", status |-> 0]
        ELSE [reject |-> FALSE, msg |-> "", status |-> 0]

\* mutant: an empty roster switches the team check off
RejectEvent_EmptyRosterOpen(cfg, drv, names, bad, event) ==
    LET chk == CheckKeyBelongsToMaster(Deref(drv), event.PubKey,
                                       ToUint32(cfg.MaxDerivationIndex), bad)
        belongsToMaster == IF ~IsNil(drv) THEN chk.belongs ELSE FALSE
        isTeamMember == \E pubkey \in RosterValues(names) : event.PubKey = pubkey
        isKindAllowed ==
            \E i \in 1..Len(cfg.AllowedKinds) : event.Kind = cfg.AllowedKinds[i]
    IN  IF cfg.TeamDomain # "" /\ DOMAIN names # {} /\ ~belongsToMaster /\ ~isTeamMember
        THEN [reject |-> TRUE, msg |-> "you are not part of the team", status |-> 0]
        ELSE IF Len(cfg.AllowedKinds) > 0 /\ ~isKindAllowed
        THEN [reject |-> TRUE, msg |-> "event kind %d is not allowed", status |-> 0]
        ELSE [reject |-> FALSE, msg |-> "", status |-> 0]

\* mutant: a key of the master is allowed before the kinds are looked at
RejectEvent_MasterSkipsKinds(cfg, drv, names, bad, event) ==
    LET chk == CheckKeyBelongsToMaster(Deref(drv), event.PubKey,
                                       ToUint32(cfg.MaxDerivationIndex), bad)
        belongsToMaster == IF ~IsNil(drv) THEN chk.belongs ELSE FALSE
        isTeamMember == \E pubkey \in RosterValues(names) : event.PubKey = pubkey
        isKindAllowed ==
            \E i \in 1..Len(cfg.AllowedKinds) : event.Kind = cfg.AllowedKinds[i]
    IN  IF belongsToMaster
        THEN [reject |-> FALSE, msg |-> "", status |-> 0]
        ELSE IF cfg.TeamDomain # "" /\ ~isTeamMember
        THEN [reject |-> TRUE, msg |-> "you are not part of the team", status |-> 0]
        ELSE IF Len(cfg.AllowedKinds) > 0 /\ ~isKindAllowed
        THEN [reject |-> TRUE, msg |-> "event kind %d is not allowed", status |-> 0]
        ELSE [reject |-> FALSE, msg |-> "", status |-> 0]

\* mutant: the team check is made whether or not TEAM_DOMAIN is set
RejectEvent_AlwaysTeam(cfg, drv, names, bad, event) ==
    LET chk == CheckKeyBelongsToMaster(Deref(drv), event.PubKey,
                                       ToUint32(cfg.MaxDerivationIndex), bad)
        belongsToMaster == IF ~IsNil(drv) THEN chk.belongs ELSE FALSE
        isTeamMember == \E pubkey \in RosterValues(names) : event.PubKey = pubkey
        isKindAllowed ==
            \E i \in 1..Len(cfg.AllowedKinds) : event.Kind = cfg.AllowedKinds[i]
    IN  IF ~belongsToMaster /\ ~isTeamMember
        THEN [reject |-> TRUE, msg |-> "you are not part of the team", status |-> 0]
        ELSE IF Len(cfg.AllowedKinds) > 0 /\ ~isKindAllowed
        THEN [reject |-> TRUE, msg |-> "event kind %d is not allowed", status |-> 0]
        ELSE [reject |-> FALSE, msg |-> "", status |-> 0]

\* the decision of the relay.RejectEvent handler
RejectEvent(cfg, drv, names, bad, event) ==
    LET chk == CheckKeyBelongsToMaster(Deref(drv), event.PubKey,
                                       ToUint32(cfg.MaxDerivationIndex), bad)
        belongsToMaster == IF ~IsNil(drv) THEN chk.belongs ELSE FALSE
        isTeamMember == \E pubkey \in RosterValues(names) : event.PubKey = pubkey
        isKindAllowed ==
            \E i \in 1..Len(cfg.AllowedKinds) : event.Kind = cfg.AllowedKinds[i]
    IN  IF cfg.TeamDomain # "" /\ ~belongsToMaster /\ ~isTeamMember
        THEN [reject |-> TRUE, msg |-> "you are not part of the team", status |-> 0]
        ELSE IF Len(cfg.AllowedKinds) > 0 /\ ~isKindAllowed
        THEN [reject |-> TRUE, msg |-> "event kind %d is not allowed", status |-> 0]
        ELSE [reject |-> FALSE, msg |-> "", status |-> 0]

\* the authors of a filter checked in order, from position i on
RECURSIVE AuthorsFrom(_, _, _, _, _)
AuthorsFrom(cfg, drv, bad, authors, i) ==
    IF i > Len(authors) THEN [reject |-> FALSE, msg |-> "", status |-> 0]
    ELSE LET chk == CheckKeyBelongsToMaster(Deref(drv), authors[i],
                                            ToUint32(cfg.MaxDerivationIndex), bad)
         IN  IF chk.err # ""
             THEN [reject |-> TRUE, msg |-> "error validating author: %v", status |-> 0]
             ELSE IF ~chk.belongs
             THEN [reject |-> TRUE, msg |-> "author not allowed by read restrictions",
                   status |-> 0]
             ELSE AuthorsFrom(cfg, drv, bad, authors, i + 1)

\* mutant: with a team domain configured the authors are not checked
RejectFilter_TeamOpen(cfg, drv, bad, filter) ==
    IF IsNil(drv)
    THEN [reject |-> TRUE,
          msg |-> "reads are restricted but key deriver is not configured", status |-> 0]
    ELSE IF cfg.TeamDomain # ""
    THEN [reject |-> FALSE, msg |-> "", status |-> 0]
    ELSE IF Len(filter.Authors) > 0
    THEN AuthorsFrom(cfg, drv, bad, filter.Authors, 1)
    ELSE [reject |-> TRUE, msg |-> "reads restricted: specify allowed authors",
          status |-> 0]

\* mutant: without a deriver the handler lets the filter through
RejectFilter_NilOpen(cfg, drv, bad, filter) ==
    IF IsNil(drv)
    THEN [reject |-> FALSE, msg |-> "", status |-> 0]
    ELSE IF Len(filter.Authors) > 0
    THEN AuthorsFrom(cfg, drv, bad, filter.Authors, 1)
    ELSE [reject |-> TRUE, msg |-> "reads restricted: specify allowed authors",
          status |-> 0]

\* mutant: a filter without authors falls through to allow
RejectFilter_EmptyAllowed(cfg, drv, bad, filter) ==
    IF IsNil(drv)
    THEN [reject |-> TRUE,
          msg |-> "reads are restricted but key deriver is not configured", status |-> 0]
    ELSE IF Len(filter.Authors) > 0
    THEN AuthorsFrom(cfg, drv, bad, filter.Authors, 1)
    ELSE [reject |-> FALSE, msg |-> "", status |-> 0]

\* the decision of the relay.RejectFilter handler (registered when
\* ReadsRestricted)
RejectFilter(cfg, drv, bad, filter) ==
    IF IsNil(drv)
    THEN [reject |-> TRUE,
          msg |-> "reads are restricted but key deriver is not configured", status |-> 0]
    ELSE IF Len(filter.Authors) > 0
    THEN AuthorsFrom(cfg, drv, bad, filter.Authors, 1)
    ELSE [reject |-> TRUE, msg |-> "reads restricted: specify allowed authors",
          status |-> 0]

\* mutant: the size test written >=
SizeExceeds_AtLimit(cfg, size) == size >= cfg.MaxUploadSizeMB * MiB

\* the size gate of bl.RejectUpload
SizeExceeds(cfg, size) == size > cfg.MaxUploadSizeMB * MiB

\* mutant: the roster is enforced whether or not TEAM_DOMAIN is set
RejectUpload_AlwaysRoster(cfg, names, event, size, ext) ==
    IF SizeExceeds(cfg, size)
    THEN [reject |-> TRUE, msg |-> "file size exceeds %dMB limit",
          status |-> StatusTooLarge]
    ELSE IF \E pubkey \in RosterValues(names) : pubkey = event.PubKey
    THEN [reject |-> FALSE, msg |-> ext, status |-> size]
    ELSE [reject |-> TRUE, msg |-> "you are not part of the team",
          status |-> StatusForbidden]

\* the decision of the bl.RejectUpload handler
RejectUpload(cfg, names, event, size, ext) ==
    IF SizeExceeds(cfg, size)
    THEN [reject |-> TRUE, msg |-> "file size exceeds %dMB limit",
          status |-> StatusTooLarge]
    ELSE IF cfg.TeamDomain # ""
    THEN IF \E pubkey \in RosterValues(names) : pubkey = event.PubKey
         THEN [reject |-> FALSE, msg |-> ext, status |-> size]
         ELSE [reject |-> TRUE, msg |-> "you are not part of the team",
               status |-> StatusForbidden]
    ELSE [reject |-> FALSE, msg |-> ext, status |-> size]

\* what an HTTP GET of the roster yields: a failure, or a parsed document
FetchOutcomes ==
    {[fail |-> f, names |-> NoNames] : f \in {"get", "read", "json"}}
    \cup {[fail |-> "", names |-> d] : d \in RosterDocs}

\* mutant: the names fetched are added to the names already held
fetchNostrData_Merges(teamDomain, names, o) ==
    IF teamDomain = "" THEN names
    ELSE IF o.fail # "" THEN names
    ELSE [n \in DOMAIN names \cup DOMAIN o.names |->
            IF n \in DOMAIN o.names THEN o.names[n] ELSE names[n]]

\* mutant: a failed fetch stores the empty document it was about to fill
fetchNostrData_StoresEmpty(teamDomain, names, o) ==
    IF teamDomain = "" THEN names
    ELSE IF o.fail # "" THEN NoNames
    ELSE o.names

\* data.Names after fetchNostrData(teamDomain) met outcome o
fetchNostrData(teamDomain, names, o) ==
    IF teamDomain = "" THEN names
    ELSE IF o.fail # "" THEN names
    ELSE o.names

\* ------------------------------------------------------------ the machine
\* a policy call as last: its input, the roster it read, and the
\* decision of the handler; Idle when no call is running
Idle ==
    [op |-> "none", PubKey |-> Garbage, Kind |-> 0, Authors |-> <<>>, Kinds |-> <<>>,
     size |-> 0, ext |-> "", names |-> NoNames, reject |-> FALSE, msg |-> "",
     status |-> 0]

Call(op, pubkey, kind, filter, size, ext, names, r) ==
    [op |-> op, PubKey |-> pubkey, Kind |-> kind, Authors |-> filter.Authors,
     Kinds |-> filter.Kinds, size |-> size, ext |-> ext, names |-> names,
     reject |-> r.reject, msg |-> r.msg, status |-> r.status]

NoFilter == [Authors |-> <<>>, Kinds |-> <<>>]

\* a run of fetchNostrData as last: what the fetch met (fail is the step that
\* failed, "" when none did, doc the document parsed) and the roster before it
Fetch(o, names) == [op |-> "fetch", fail |-> o.fail, doc |-> o.names, before |-> names]

\* Spec takes every derivation to succeed: an invalid child has probability
\* below 2^-127 per step and no seed with one is known
Init ==
    /\ pc = "boot"
    /\ config = ZeroConfig
    /\ deriver = Nil
    /\ invalidChild = {}
    /\ storing = Nil
    /\ data = NoNames
    /\ everFetched = FALSE
    /\ last = Idle

\* config = LoadConfig(): fatal unless exactly one credential is set
LoadConfig ==
    /\ pc = "boot"
    /\ \E env \in Env :
         IF hasMnemonic(ConfigOf(env)) = hasSeed(ConfigOf(env))
         THEN pc' = "fatal" /\ UNCHANGED config
         ELSE pc' = "configured" /\ config' = ConfigOf(env)
    /\ UNCHANGED <<deriver, invalidChild, storing, data, everFetched, last>>

\* main: initDeriver(config), fatal on error
InitDeriver ==
    /\ pc = "configured"
    /\ IF initDeriver(config).err
       THEN pc' = "fatal" /\ UNCHANGED deriver
       ELSE pc' = "derived" /\ deriver' = initDeriver(config).d
    /\ UNCHANGED <<config, invalidChild, storing, data, everFetched, last>>

\* main: the first fetch of the roster, the registration of the handlers and
\* the start of the server
Serve ==
    /\ pc = "derived"
    /\ pc' = "serving"
    /\ IF config.TeamDomain # ""
       THEN \E o \in FetchOutcomes :
              /\ data' = fetchNostrData(config.TeamDomain, data, o)
              /\ everFetched' = (everFetched \/ o.fail = "")
              /\ last' = Fetch(o, data)
       ELSE UNCHANGED <<data, everFetched, last>>
    /\ UNCHANGED <<config, deriver, invalidChild, storing>>

\* mutant: the loop goes on only once a fetch has succeeded
Refresh_OnlyAfterSuccess ==
    /\ pc = "serving" /\ last.op = "none"
    /\ config.TeamDomain # "" /\ everFetched
    /\ \E o \in FetchOutcomes :
         /\ data' = fetchNostrData(config.TeamDomain, data, o)
         /\ everFetched' = (everFetched \/ o.fail = "")
         /\ last' = Fetch(o, data)
    /\ UNCHANGED <<pc, config, deriver, invalidChild, storing>>

\* the hourly refresh of the roster, between two calls of the handlers
Refresh ==
    /\ pc = "serving" /\ last.op = "none"
    /\ config.TeamDomain # ""
    /\ \E o \in FetchOutcomes :
         /\ data' = fetchNostrData(config.TeamDomain, data, o)
         /\ everFetched' = (everFetched \/ o.fail = "")
         /\ last' = Fetch(o, data)
    /\ UNCHANGED <<pc, config, deriver, invalidChild, storing>>

ClientStrings ==
    IF IsNil(deriver) THEN KeyStrings(StrangerSeed)
    ELSE KeyStrings(Deref(deriver).masterKey.seed)

ClientAuthorLists ==
    IF IsNil(deriver) THEN AuthorLists(StrangerSeed)
    ELSE AuthorLists(Deref(deriver).masterKey.seed)

\* what a read of data.Names yields.  The handlers read data and the refresh
\* goroutine assigns it with no lock, channel or atomic between them, so a
\* read that falls inside the assignment is a data race: the Go memory model
\* lets it see the old map or the new one, and, as nothing orders the
\* writes that filled the new map before the read, any part of the new map
RosterReads ==
    IF IsNil(storing) THEN {data}
    ELSE {data} \cup {[n \in S |-> Deref(storing)[n]] : S \in SUBSET DOMAIN Deref(storing)}

UploadSizes == {0, config.MaxUploadSizeMB * MiB, config.MaxUploadSizeMB * MiB + 1}

\* an event arrives: relay.RejectEvent decides
HandleEvent ==
    /\ pc = "serving" /\ last.op = "none"
    /\ \E pk \in ClientStrings, kind \in Kinds, names \in RosterReads :
         last' = Call("event", pk, kind, NoFilter, 0, "", names,
                      RejectEvent(config, deriver, names, invalidChild,
                                  [PubKey |-> pk, Kind |-> kind]))
    /\ UNCHANGED <<pc, config, deriver, invalidChild, storing, data, everFetched>>

\* a subscription arrives: relay.RejectFilter decides when it is registered
HandleFilter ==
    /\ pc = "serving" /\ last.op = "none"
    /\ \E authors \in ClientAuthorLists, kinds \in {<<>>, <<1>>} :
         LET filter == [Authors |-> authors, Kinds |-> kinds]
         IN  last' = Call("filter", Garbage, 0, filter, 0, "", NoNames,
                          IF config.ReadsRestricted
                          THEN RejectFilter(config, deriver, invalidChild, filter)
                          ELSE [reject |-> FALSE, msg |-> "", status |-> 0])
    /\ UNCHANGED <<pc, config, deriver, invalidChild, storing, data, everFetched>>

\* an upload arrives: bl.RejectUpload decides (Blossom enabled)
HandleUpload ==
    /\ pc = "serving" /\ last.op = "none"
    /\ config.BlossomEnabled
    /\ \E pk \in ClientStrings, size \in UploadSizes, ext \in {".png"},
          names \in RosterReads :
         last' = Call("upload", pk, 0, NoFilter, size, ext, names,
                      RejectUpload(config, names, [PubKey |-> pk], size, ext))
    /\ UNCHANGED <<pc, config, deriver, invalidChild, storing, data, everFetched>>

\* the handler, or the fetch, returns
Reply ==
    /\ pc = "serving" /\ last.op \notin {"none", "search"}
    /\ last' = Idle
    /\ UNCHANGED <<pc, config, deriver, invalidChild, storing, data, everFetched>>

Next ==
    \/ LoadConfig
    \/ InitDeriver
    \/ Serve
    \/ Refresh
    \/ HandleEvent
    \/ HandleFilter
    \/ HandleUpload
    \/ Reply

Spec == Init /\ [][Next]_vars

\* ------------------------------------------ the refresh loop, for ever
\* main from the first fetch on, with TEAM_DOMAIN set.  The goroutine of
\* main.go:92-97 is `for { time.Sleep(1 * time.Hour); fetchNostrData(...) }`:
\* it has no exit and waits for nothing but the clock and the fetch, so it
\* fetches again and again whatever the handlers do (strong fairness: in the
\* model a fetch waits for the call in progress to return); main goes on to
\* serve, and every call returns.
RefreshEnv ==
    {env \in Env :
       /\ env.mnemonic = Some("valid words") /\ env.seedHex = Nil
       /\ env.teamDomain # "" /\ ~env.blossomEnabled
       /\ env.allowedKinds = Nil /\ env.maxUpload = Nil
       /\ ~env.readsRestricted}

InitRefresh ==
    /\ pc = "derived"
    /\ \E env \in RefreshEnv :
         /\ config = ConfigOf(env)
         /\ deriver = initDeriver(ConfigOf(env)).d
    /\ invalidChild = {}
    /\ data = NoNames
    /\ storing = Nil
    /\ everFetched = FALSE
    /\ last = Idle

NextRefresh ==
    \/ Serve
    \/ Refresh
    \/ HandleEvent
    \/ Reply

SpecRefresh ==
    /\ InitRefresh /\ [][NextRefresh]_vars
    /\ WF_vars(Serve) /\ SF_vars(Refresh) /\ WF_vars(Reply)

\* --------------------------------- the refresh goroutine, step by step
\* Spec takes fetchNostrData as one step between two calls of the handlers.
\* Here the assignment `data = newData` of the goroutine has a beginning and
\* an end, and the handlers run at any time, also between the two.
RaceEnv ==
    {env \in Env :
       /\ env.mnemonic = Some("valid words") /\ env.seedHex = Nil
       /\ env.teamDomain # "" /\ env.blossomEnabled
       /\ env.allowedKinds = Nil /\ env.maxUpload = Some(IntText(1))
       /\ ~env.readsRestricted}

\* main is serving and the first fetch has failed
InitRace ==
    /\ pc = "serving"
    /\ \E env \in RaceEnv :
         /\ config = ConfigOf(env)
         /\ deriver = initDeriver(ConfigOf(env)).d
    /\ invalidChild = {}
    /\ data = NoNames
    /\ storing = Nil
    /\ everFetched = FALSE
    /\ last = Idle

\* fetchNostrData up to the assignment: a failed fetch returns, a fetched
\* document is about to be stored
BeginStore ==
    /\ pc = "serving" /\ config.TeamDomain # "" /\ IsNil(storing)
    /\ \E o \in FetchOutcomes :
         storing' = IF o.fail # "" THEN Nil ELSE Some(o.names)
    /\ UNCHANGED <<pc, config, deriver, invalidChild, data, everFetched, last>>

\* the assignment `data = newData` is complete
EndStore ==
    /\ pc = "serving" /\ ~IsNil(storing) /\ last.op = "none"
    /\ data' = Deref(storing)
    /\ storing' = Nil
    /\ everFetched' = TRUE
    /\ UNCHANGED <<pc, config, deriver, invalidChild, last>>

NextRace ==
    \/ BeginStore
    \/ EndStore
    \/ HandleEvent
    \/ HandleUpload
    \/ Reply

SpecRace == InitRace /\ [][NextRace]_vars

\* ------------------------------------- the search loop, step by step
\* SearchLoop above is what the loop returns when it returns.  Here the loop
\* of CheckKeyBelongsToMaster runs one iteration at a time inside a call of
\* relay.RejectEvent, with the bound uint32(config.MaxDerivationIndex) for
\* every integer MAX_DERIVATION_INDEX may hold, and the counter a uint32.
LoopIndexEnv ==
    {Some(IntText(n)) : n \in {-1, MaxUint32} \cup 0..MaxIndexBound}

LoopEnv ==
    [mnemonic : {Some("valid words")}, seedHex : {Nil}, teamDomain : {""},
     blossomEnabled : {FALSE}, allowedKinds : {Nil}, maxUpload : {Nil},
     maxIndex : LoopIndexEnv, readsRestricted : {FALSE}]

InitLoop ==
    /\ pc = "serving"
    /\ \E env \in LoopEnv :
         /\ config = ConfigOf(env)
         /\ deriver = initDeriver(ConfigOf(env)).d
    /\ invalidChild = {}
    /\ data = NoNames
    /\ storing = Nil
    /\ everFetched = FALSE
    /\ last = Idle

\* the result of CheckKeyBelongsToMaster as last
Checked(targetKey, maxIndex, belongs, index, err, errIndex) ==
    [op |-> "check", targetKey |-> targetKey, maxIndex |-> maxIndex,
     belongs |-> belongs, index |-> index, err |-> err, errIndex |-> errIndex]

\* relay.RejectEvent calls CheckKeyBelongsToMaster(event.PubKey,
\* uint32(config.MaxDerivationIndex), true): the key is decoded and the loop
\* starts with i = 0
SearchBegin ==
    /\ pc = "serving" /\ last.op = "none" /\ ~IsNil(deriver)
    /\ \E targetKey \in ClientStrings :
         LET dec == Nip19Decode(targetKey)
             maxIndex == ToUint32(config.MaxDerivationIndex)
         IN  IF ~dec.err /\ dec.prefix # "npub"
             THEN last' = Checked(targetKey, maxIndex, FALSE, 0,
                                  "unsupported NIP-19 format", 0)
             ELSE last' = [op |-> "search", targetKey |-> targetKey,
                           targetPubKey |-> IF ~dec.err THEN dec.decoded ELSE targetKey,
                           maxIndex |-> maxIndex, i |-> 0]
    /\ UNCHANGED <<pc, config, deriver, invalidChild, storing, data, everFetched>>

\* the test i <= maxIndex and, when it holds, one run of the body and i++
SearchStep ==
    /\ pc = "serving" /\ last.op = "search"
    /\ LET r == DeriveKeyBIP32(Deref(deriver), last.i, invalidChild)
       IN  IF ~(last.i <= last.maxIndex)
           THEN last' = Checked(last.targetKey, last.maxIndex, FALSE, 0, "", 0)
           ELSE IF r.err
           THEN last' = Checked(last.targetKey, last.maxIndex, FALSE, 0,
                                "failed to derive key at index %d", last.i)
           ELSE IF r.kp.PublicKey = last.targetPubKey
           THEN last' = Checked(last.targetKey, last.maxIndex, TRUE, last.i, "", 0)
           ELSE last' = [last EXCEPT !.i = (last.i + 1) % (MaxUint32 + 1)]
    /\ UNCHANGED <<pc, config, deriver, invalidChild, storing, data, everFetched>>

NextLoop ==
    \/ SearchBegin
    \/ SearchStep
    \/ Reply

\* the goroutine that runs the handler keeps running
SpecLoop == InitLoop /\ [][NextLoop]_vars /\ WF_vars(SearchStep)

\* ------------------------------------------- parseAllowedKinds on its own
\* LoadConfig hands parseAllowedKinds whatever ALLOWED_KINDS holds: nothing,
\* or a text of up to MaxEntries comma separated entries
KindEntries == {BlankEntry, BadEntry} \cup {KindEntry(n) : n \in Kinds \cup {-1}}

KindTexts ==
    {Nil} \cup {Some(t) : t \in UNION {[1..n -> KindEntries] : n \in 1..MaxEntries}}

InitKinds ==
    /\ pc = "boot"
    /\ config = ZeroConfig
    /\ deriver = Nil
    /\ invalidChild = {}
    /\ data = NoNames
    /\ storing = Nil
    /\ everFetched = FALSE
    /\ last = Idle

\* AllowedKinds: parseAllowedKinds(getEnvNullable("ALLOWED_KINDS"))
ParseKinds ==
    /\ pc = "boot" /\ last.op = "none"
    /\ \E text \in KindTexts :
         last' = [op |-> "kinds", text |-> text, kinds |-> parseAllowedKinds(text)]
    /\ UNCHANGED <<pc, config, deriver, invalidChild, storing, data, everFetched>>

\* the slice is returned
ParseReturn ==
    /\ pc = "boot" /\ last.op = "kinds"
    /\ last' = Idle
    /\ UNCHANGED <<pc, config, deriver, invalidChild, storing, data, everFetched>>

NextKinds ==
    \/ ParseKinds
    \/ ParseReturn

SpecKinds == InitKinds /\ [][NextKinds]_vars

\* ------------------------------------------- the handlers on their own
\* The handlers read the package variables config and deriver.  initDeriver
\* leaves deriver nil, without an error, when neither credential is set; main
\* never serves in that state (LoadConfig is fatal first), so the branch of
\* RejectFilter for a nil deriver is exercised here, where the handlers are
\* served over whatever initDeriver leaves behind.
HandlerEnv ==
    {env \in Env :
       /\ env.mnemonic \in {Nil, Some("valid words")}
       /\ env.seedHex \in {Nil, Some("hex of 32 bytes")}
       /\ env.teamDomain = "" /\ ~env.blossomEnabled
       /\ env.allowedKinds = Nil /\ env.maxUpload = Nil}

InitHandlers ==
    /\ pc = "serving"
    /\ \E env \in HandlerEnv :
         /\ config = ConfigOf(env)
         /\ deriver = initDeriver(ConfigOf(env)).d
    /\ invalidChild = {}
    /\ storing = Nil
    /\ data = NoNames
    /\ everFetched = FALSE
    /\ last = Idle

NextHandlers ==
    \/ HandleFilter
    \/ Reply

SpecHandlers == InitHandlers /\ [][NextHandlers]_vars

\* ------------------------------------------------- the library on its own
\* A program that builds a deriver and calls CheckKeyBelongsToMaster, as
\* examples/keyderivation/main.go does: from a fresh mnemonic, from a given
\* mnemonic, or from a seed.  Every derivation succeeds.
CheckDerivers ==
    {NewNostrKeyDeriver("").d, NewNostrKeyDeriver("valid words").d,
     NewNostrKeyDeriverFromSeed(HexDecodeString("hex of 32 bytes").bytes).d}

CheckBounds == 0..(MaxIndexBound + 1)

InitCheck ==
    /\ pc = "library"
    /\ config = ZeroConfig
    /\ deriver \in CheckDerivers
    /\ invalidChild = {}
    /\ storing = Nil
    /\ data = NoNames
    /\ everFetched = FALSE
    /\ last = Idle

\* found, index, err := deriver.CheckKeyBelongsToMaster(targetKey, maxIndex, true)
CheckKey ==
    /\ pc = "library" /\ last.op = "none"
    /\ \E targetKey \in CheckTargets(Deref(deriver).masterKey.seed),
          maxIndex \in CheckBounds :
         LET r == CheckKeyBelongsToMaster(Deref(deriver), targetKey, maxIndex,
                                          invalidChild)
         IN  last' = [op |-> "check", targetKey |-> targetKey, maxIndex |-> maxIndex,
                      belongs |-> r.belongs, index |-> r.index, err |-> r.err,
                      errIndex |-> r.errIndex]
    /\ UNCHANGED <<pc, config, deriver, invalidChild, storing, data, everFetched>>

\* mutant: a call moves the deriver on to the key it derived
DeriveKey_Ratchets ==
    /\ pc = "library" /\ last.op = "none"
    /\ \E index \in Words :
         LET r == DeriveKeyBIP32(Deref(deriver), index, invalidChild)
         IN  /\ last' = [op |-> "derive", index |-> index, err |-> r.err, kp |-> r.kp]
             /\ deriver' = Some([Deref(deriver) EXCEPT !.masterKey = r.kp.PublicKey.key])
    /\ UNCHANGED <<pc, config, invalidChild, storing, data, everFetched>>

\* keyPair, err := deriver.DeriveKeyBIP32(index): the deriver is only read
DeriveKey ==
    /\ pc = "library" /\ last.op = "none"
    /\ \E index \in Words :
         LET r == DeriveKeyBIP32(Deref(deriver), index, invalidChild)
         IN  last' = [op |-> "derive", index |-> index, err |-> r.err, kp |-> r.kp]
    /\ UNCHANGED <<pc, config, deriver, invalidChild, storing, data, everFetched>>

\* the result is printed and dropped
CheckReturn ==
    /\ pc = "library" /\ last.op \in {"check", "derive"}
    /\ last' = Idle
    /\ UNCHANGED <<pc, config, deriver, invalidChild, storing, data, everFetched>>

NextCheck ==
    \/ CheckKey
    \/ DeriveKey
    \/ CheckReturn

SpecCheck == InitCheck /\ [][NextCheck]_vars

\* the same program over a seed for which the derivation fails at some
\* indexes (hdkeychain.ErrInvalidChild)
InitCheckErr ==
    /\ pc = "library"
    /\ config = ZeroConfig
    /\ deriver \in CheckDerivers
    /\ invalidChild \in SUBSET CheckBounds /\ invalidChild # {}
    /\ data = NoNames
    /\ storing = Nil
    /\ everFetched = FALSE
    /\ last = Idle

SpecCheckErr == InitCheckErr /\ [][NextCheck]_vars

\* ------------------------------------------------------------------ claims
\* what the documentation means by a key that belongs to the master: the
\* public key, written as hex or npub, of the root or of a descendant
\* m/44'/1237'/0'/0/i with i in 0..MaxDerivationIndex
CarriesPub(s) == s.form \in {"hex", "npub"} /\ s.part = "pub"

IsMasterKey(s) ==
    ~IsNil(deriver) /\ CarriesPub(s) /\ s.key = Deref(deriver).masterKey

IsDescendantKey(s) ==
    /\ ~IsNil(deriver) /\ CarriesPub(s)
    /\ \E i \in 0..config.MaxDerivationIndex :
         s.key = Child(Deref(deriver).masterKey.seed, i)

Belongs(s) == IsMasterKey(s) \/ IsDescendantKey(s)

SizeLimit == config.MaxUploadSizeMB * MiB

TeamReason == "you are not part of the team"

\* C1: for every deriver and every bound >= 0, CheckKeyBelongsToMaster called
\* with the public key of GetMasterKeyPair reports belongs = true, index 0.
C1_MasterRecognized ==
    ~IsNil(deriver) =>
        \A bound \in 0..MaxIndexBound :
            LET r == CheckKeyBelongsToMaster(Deref(deriver),
                         GetMasterKeyPair(Deref(deriver)).PublicKey, bound,
                         invalidChild)
            IN  r.belongs /\ r.index = 0 /\ r.err = ""

\* C2: an upload within the size limit whose pubkey belongs to the master
\* (the master or a descendant within MaxDerivationIndex) is allowed, also in
\* roster mode with the pubkey absent from the roster.
C2_MasterUploadAllowed ==
    (last.op = "upload" /\ last.size <= SizeLimit /\ Belongs(last.PubKey))
        => ~last.reject

\* C3: an upload with size > MaxUploadSizeMB*1024*1024 is denied with status
\* 413 whoever uploads and whatever the roster mode; an upload whose size is
\* at most the limit is never turned down by the size gate.
C3_SizeGateFirst ==
    last.op = "upload" =>
        /\ last.size > SizeLimit => (last.reject /\ last.status = StatusTooLarge)
        /\ last.size <= SizeLimit =>
              ~(last.reject /\ last.status = StatusTooLarge)

C3_Witness ==
    /\ last.op = "upload" /\ last.size > SizeLimit
    /\ IsMasterKey(last.PubKey) /\ config.TeamDomain # ""
    /\ last.reject /\ last.status = StatusTooLarge

\* C4: an upload within the size limit whose pubkey does not belong to the
\* master is denied with status 403 exactly when roster mode is active and
\* the pubkey is not a value of the roster; without roster mode it is allowed.
C4_StrangerUpload ==
    (last.op = "upload" /\ last.size <= SizeLimit /\ ~Belongs(last.PubKey)) =>
        /\ (last.reject /\ last.status = StatusForbidden)
              <=> (config.TeamDomain # "" /\ last.PubKey \notin RosterValues(last.names))
        /\ last.reject <=> (last.reject /\ last.status = StatusForbidden)

C4_Witness ==
    /\ last.op = "upload" /\ last.size = SizeLimit /\ ~Belongs(last.PubKey)
    /\ config.TeamDomain # "" /\ last.names # NoNames
    /\ last.PubKey \notin RosterValues(last.names)
    /\ last.reject /\ last.status = StatusForbidden

\* C5: an event whose pubkey is a descendant of the master at an index in
\* 0..MaxDerivationIndex is never rejected with the team-membership reason,
\* also in roster mode with an empty or never fetched roster.
C5_DescendantBypassesRoster ==
    (last.op = "event" /\ IsDescendantKey(last.PubKey)) => last.msg # TeamReason

C5_Witness ==
    /\ last.op = "event" /\ IsDescendantKey(last.PubKey)
    /\ last.PubKey.key = Child(Deref(deriver).masterKey.seed, config.MaxDerivationIndex)
    /\ config.MaxDerivationIndex > 0
    /\ config.TeamDomain # "" /\ ~everFetched /\ ~last.reject

\* C6: in roster mode an event whose pubkey neither belongs to the master nor
\* is a value of the roster is rejected as "not part of the team"; a roster
\* never fetched is an empty roster, not roster mode switched off.
C6_StrangerRejected ==
    (/\ last.op = "event" /\ config.TeamDomain # ""
     /\ ~Belongs(last.PubKey) /\ last.PubKey \notin RosterValues(last.names))
        => (last.reject /\ last.msg = TeamReason)

C6_Witness ==
    /\ last.op = "event" /\ config.TeamDomain # "" /\ ~everFetched
    /\ last.PubKey = HexPub(NewMaster(StrangerSeed))
    /\ last.reject /\ last.msg = TeamReason

\* C7: with a non-empty kind allow-list an event whose kind is not listed is
\* rejected for every pubkey, the master and its descendants included; an
\* event of a descendant whose kind is listed is allowed.
KindListed == \E i \in 1..Len(config.AllowedKinds) : config.AllowedKinds[i] = last.Kind

C7_KindGate ==
    (last.op = "event" /\ Len(config.AllowedKinds) > 0) =>
        /\ ~KindListed => last.reject
        /\ (KindListed /\ IsDescendantKey(last.PubKey)) => ~last.reject

C7_Witness ==
    /\ last.op = "event" /\ Len(config.AllowedKinds) > 0 /\ ~KindListed
    /\ IsDescendantKey(last.PubKey)
    /\ last.reject /\ last.msg = "event kind %d is not allowed"

C9_AuthorsAllBelong ==
    (last.op = "filter" /\ config.ReadsRestricted /\ Len(last.Authors) > 0) =>
        (~last.reject <=> \A i \in 1..Len(last.Authors) : Belongs(last.Authors[i]))

\* C10: under read restriction a filter with no author is rejected, whatever
\* its other fields.
C10_NoAuthorsRejected ==
    (last.op = "filter" /\ config.ReadsRestricted /\ Len(last.Authors) = 0)
        => last.reject

C10_Witness ==
    /\ last.op = "filter" /\ config.ReadsRestricted /\ Len(last.Authors) = 0
    /\ last.Kinds # <<>> /\ last.reject
    /\ last.msg = "reads restricted: specify allowed authors"

\* C11: with the read restriction disabled the read policy allows every
\* filter; with it enabled and no deriver configured every filter is rejected
C11_ReadGate ==
    last.op = "filter" =>
        /\ (~config.ReadsRestricted => ~last.reject)
        /\ (config.ReadsRestricted /\ IsNil(deriver) => last.reject)

C11_Witness ==
    /\ last.op = "filter" /\ config.ReadsRestricted /\ IsNil(deriver)
    /\ Len(last.Authors) > 0 /\ last.reject
    /\ last.msg = "reads are restricted but key deriver is not configured"

\* the derivation index of the public key a text carries, if it is a
\* descendant m/44'/1237'/0'/0/i of the deriver's seed with i in 0..bound
ReferenceMatches(s, bound) ==
    {i \in 0..bound :
       CarriesPub(s) /\ s.key = Child(Deref(deriver).masterKey.seed, i)}

\* C12: a key matched at index i under some bound is matched at the same
\* index i under every bound that is at least i
C12_Monotone ==
    (last.op = "check" /\ last.belongs) =>
        \A bound \in last.index..(MaxIndexBound + 1) :
            LET r == CheckKeyBelongsToMaster(Deref(deriver), last.targetKey, bound,
                                             invalidChild)
            IN  r.belongs /\ r.index = last.index /\ r.err = ""

C12_Witness ==
    /\ last.op = "check" /\ last.belongs
    /\ last.index = 1 /\ last.maxIndex = 2

\* C13: for a public key other than the master key the check agrees with
\* the reference search: belongs with the least index in 0..bound whose
\* descendant has that key, and not belongs, without error, when there is none
C13_ReferenceSearch ==
    (last.op = "check" /\ CarriesPub(last.targetKey)
       /\ ~IsMasterKey(last.targetKey)) =>
        LET found == ReferenceMatches(last.targetKey, last.maxIndex)
        IN  /\ last.err = ""
            /\ last.belongs <=> found # {}
            /\ found # {} =>
                  /\ last.index \in found
                  /\ \A i \in found : last.index <= i

C13_Witness ==
    /\ last.op = "check" /\ last.maxIndex = 1
    /\ last.targetKey = HexPub(Child(Deref(deriver).masterKey.seed, 2))
    /\ ~last.belongs /\ last.err = ""

\* C14: a public key gets the same (belongs, index) written as hex and
\* written as npub
C14_HexAndNpubAgree ==
    (last.op = "check" /\ CarriesPub(last.targetKey)) =>
        \A s \in {HexPub(last.targetKey.key),
                  EncodePublicKey(HexPub(last.targetKey.key))} :
            LET r == CheckKeyBelongsToMaster(Deref(deriver), s, last.maxIndex,
                                             invalidChild)
            IN  r.belongs = last.belongs /\ r.index = last.index

C14_Witness ==
    /\ last.op = "check" /\ last.targetKey.form = "npub"
    /\ last.belongs /\ last.index = 1

\* C15: bech32 text with a prefix other than npub gets the error of an
\* unsupported format, which a key that is not found never gets, and gets it
\* whatever the derivations would do: no search is run
C15_UnsupportedPrefix ==
    /\ (last.op = "check" /\ last.targetKey.form \in {"nsec", "note"}) =>
          /\ ~last.belongs /\ last.err = "unsupported NIP-19 format"
          /\ \A bad \in SUBSET (0..last.maxIndex) :
                CheckKeyBelongsToMaster(Deref(deriver), last.targetKey,
                                        last.maxIndex, bad).err = last.err
    /\ (last.op = "check" /\ CarriesPub(last.targetKey)) =>
          last.err # "unsupported NIP-19 format"

C15_Witness ==
    /\ last.op = "check" /\ last.maxIndex = 1
    /\ last.targetKey =
         EncodePrivateKey(HexPriv(Child(Deref(deriver).masterKey.seed, 0)))
    /\ ~last.belongs /\ last.err = "unsupported NIP-19 format"

\* C16: text that is neither bech32 nor the hex of a key is refused with an
\* error of its own, not reported as not belonging without error
C16_MalformedRejected ==
    (last.op = "check" /\ last.targetKey.form = "bad") => last.err # ""

\* text on which CheckKeyBelongsToMaster is to fail: bech32 text with a
\* prefix other than npub, or text that is no key at all
Erroneous(s) == s.form \in {"nsec", "note", "bad"}

\* C17: a key on which the membership check is to fail is denied by the
\* write policy and by the read policy, with a reason other than the one a
\* key that is merely no member gets
C17_ErrorsDenied ==
    /\ (last.op = "event" /\ Erroneous(last.PubKey)) =>
          (last.reject /\ last.msg # "you are not part of the team")
    /\ (last.op = "filter" /\ config.ReadsRestricted
          /\ \E i \in 1..Len(last.Authors) : Erroneous(last.Authors[i])) =>
          /\ last.reject
          /\ Erroneous(last.Authors[1]) =>
                last.msg # "author not allowed by read restrictions"

\* an environment variable holding more than blanks
NonBlank(p) == ~IsNil(p) /\ Deref(p) \notin {"", " "}

\* C18: main gets past LoadConfig, and a handler is served, only with exactly
\* one of RELAY_MNEMONIC and RELAY_SEED_HEX non-blank
C18_ExactlyOneCredential ==
    (pc \in {"configured", "derived", "serving"} \/ last.op # "none") =>
        (NonBlank(config.RelayMnemonic) # NonBlank(config.RelaySeedHex))

C18_Witness ==
    /\ pc = "serving" /\ last.op = "event"
    /\ config.RelayMnemonic = Some(" ") /\ NonBlank(config.RelaySeedHex)

\* C19: a deriver exists, and a handler is served, only when the mnemonic
\* passed its checksum or the seed has 32 bytes
C19_ValidCredential ==
    (~IsNil(deriver) \/ pc \in {"derived", "serving"} \/ last.op # "none") =>
        /\ ~IsNil(deriver)
        /\ \/ Deref(deriver).mnemonic = "valid words"
           \/ Deref(deriver).mnemonic = "" /\ Deref(deriver).masterSeed.len = 32

\* C20: a fetch of the roster that fails (GET, reading the body, or parsing
\* it) leaves the roster as it was, and no decision carries the failure
C20_FailedFetchKeepsRoster ==
    /\ (last.op = "fetch" /\ last.fail # "") => data = last.before
    /\ last.op \in {"event", "upload"} =>
          last.msg \in {"", ".png", "you are not part of the team",
                        "event kind %d is not allowed", "file size exceeds %dMB limit"}

C20_Witness ==
    /\ last.op = "fetch" /\ last.fail = "json"
    /\ last.before # NoNames /\ data = last.before

\* C21: while the roster is being replaced a write or upload policy call
\* reads the whole old roster or the whole new one
C21_WholeRosterRead ==
    last.op \in {"event", "upload"} =>
        \/ last.names = data
        \/ ~IsNil(storing) /\ last.names = Deref(storing)

\* a deriver built anew from the credential a deriver was built from
Rebuilt(nkd) ==
    IF nkd.mnemonic # "" THEN Deref(NewNostrKeyDeriver(nkd.mnemonic).d)
    ELSE Deref(NewNostrKeyDeriverFromSeed(nkd.masterSeed).d)

C23_FailureStopsSearch ==
    (last.op = "check" /\ last.targetKey.form \notin {"nsec", "note"}) =>
        /\ \A i \in invalidChild :
              (/\ i <= last.maxIndex
               /\ \A k \in invalidChild : i <= k
               /\ \A j \in ReferenceMatches(last.targetKey, last.maxIndex) : i <= j)
              => (/\ ~last.belongs
                  /\ last.err = "failed to derive key at index %d"
                  /\ last.errIndex = i)
        /\ last.belongs => \A i \in invalidChild : last.index < i

C23_Witness ==
    /\ last.op = "check" /\ last.maxIndex = 2 /\ invalidChild = {1}
    /\ last.targetKey = HexPub(Child(Deref(deriver).masterSeed.id, 2))
    /\ ~last.belongs /\ last.err = "failed to derive key at index %d"
    /\ last.errIndex = 1

\* C24: for every index the derived key is the one at the end of the child
\* numbers 44', 1237', 0', 0, index: three hardened steps, then two that
\* are not, the trailing index among them
C24_PathTemplate ==
    (last.op = "derive" /\ ~last.err) =>
        last.kp.PublicKey.key.path =
            <<Hardened(44), Hardened(1237), Hardened(0),
              [hardened |-> FALSE, n |-> 0], [hardened |-> FALSE, n |-> last.index]>>

\* C25: after a fetch that succeeded the roster is the fetched document and
\* nothing else, so a key that is only in an earlier roster, and does not
\* belong to the master, is denied by the write and upload policies
C25_RosterReplaced ==
    /\ (last.op = "fetch" /\ last.fail = "") => data = last.doc
    /\ (last.op \in {"event", "upload"} /\ config.TeamDomain # ""
          /\ ~Belongs(last.PubKey)
          /\ \A n \in DOMAIN data : data[n] # last.PubKey) => last.reject

C25_Witness ==
    /\ last.op = "fetch" /\ last.fail = ""
    /\ "alice" \in DOMAIN last.before /\ last.doc = NoNames /\ data = NoNames

C27_SearchTerminates == (last.op = "search") ~> (last.op = "check")

\* C28: the decision on a filter is a function of the read restriction
\* flag, the deriver, the search bound and the authors alone, whatever
\* TEAM_DOMAIN and the roster are; an author who is only in the roster is
\* refused
C28_ReadIgnoresRoster ==
    last.op = "filter" =>
        /\ last.reject <=>
              /\ config.ReadsRestricted
              /\ \/ Len(last.Authors) = 0
                 \/ \E i \in 1..Len(last.Authors) : ~IsDescendantKey(last.Authors[i])
        /\ (/\ config.ReadsRestricted
            /\ \E i \in 1..Len(last.Authors) :
                  /\ \E n \in DOMAIN data : data[n] = last.Authors[i]
                  /\ ~Belongs(last.Authors[i]))
           => last.reject

C28_Witness ==
    /\ last.op = "filter" /\ config.ReadsRestricted /\ config.TeamDomain # ""
    /\ last.Authors = <<HexPub(NewMaster(StrangerSeed))>>
    /\ "alice" \in DOMAIN data /\ data["alice"] = last.Authors[1]
    /\ last.reject /\ last.msg = "author not allowed by read restrictions"

\* the identity stage of the write policy: no roster mode, or a key that
\* belongs to the master, or a key in the roster the handler read
PassedIdentity ==
    \/ config.TeamDomain = ""
    \/ Belongs(last.PubKey)
    \/ \E n \in DOMAIN last.names : last.names[n] = last.PubKey

\* C29: an event of a key that fails the roster check and of a kind that is
\* not allowed is rejected for the team, and the reason of the kind is only
\* given to events that passed the identity stage
C29_TeamBeforeKind ==
    last.op = "event" =>
        /\ (~PassedIdentity /\ Len(config.AllowedKinds) > 0 /\ ~KindListed) =>
              (last.reject /\ last.msg = TeamReason)
        /\ last.msg = "event kind %d is not allowed" => PassedIdentity

C29_Witness ==
    /\ last.op = "event" /\ ~PassedIdentity
    /\ Len(config.AllowedKinds) > 0 /\ ~KindListed
    /\ last.names # NoNames
    /\ last.reject /\ last.msg = TeamReason

\* an entry that strconv.Atoi takes after trimming
IsInteger(e) == ~e.blank /\ e.numeric

\* C30: parseAllowedKinds returns the integers among the entries, in the
\* order of the text, and returns none exactly when the variable is unset,
\* blank, or without any integer entry
C30_KindsParsed ==
    last.op = "kinds" =>
        LET entries == IF IsNil(last.text) THEN <<>> ELSE Deref(last.text)
            numbers == SelectSeq(entries, IsInteger)
        IN  /\ Len(last.kinds) = Len(numbers)
            /\ \A i \in 1..Len(numbers) : last.kinds[i] = numbers[i].n
            /\ last.kinds = <<>> <=>
                  \/ IsNil(last.text)
                  \/ \A i \in 1..Len(entries) : ~IsInteger(entries[i])

C30_Witness ==
    /\ last.op = "kinds"
    /\ last.text = Some(<<KindEntry(7), BadEntry, KindEntry(1)>>)
    /\ last.kinds = <<7, 1>>

====
